---- MODULE Spec2Model ----
(***************************************************************************)
(* Model of confgenerator/filter/filter.go: compilation of log filters     *)
(* into fluent-bit components (AllComponents, Filter.Components), into     *)
(* components plus Lua text (AllFluentConfig), and MatchesAny.             *)
(*                                                                         *)
(* A Go string is a sequence of string pieces: a tag is a sequence of      *)
(* one-character pieces, a format string contributes its literal pieces,   *)
(* and concatenation is \o.  A map[string]string is a function whose       *)
(* domain is the set of keys.                                              *)
(***************************************************************************)
EXTENDS Integers, Sequences, FiniteSets, TLC

VARIABLES op, tag, filters, isExclusionFilter, named, vars, out, lua,
          exprCalls, result, prevOut, prevLua

allVars == <<op, tag, filters, isExclusionFilter, named, vars, out, lua,
             exprCalls, result, prevOut, prevLua>>

-----------------------------------------------------------------------------
(* Bounds and input sets *)

MaxTagLen == 2

MaxFilters == 2

TagChars == {"a", "7", ".", "-", "*"}

AppLog == <<"a", "p", "p", ".", "l", "o", "g">>

Tags == UNION {[1..n -> TagChars] : n \in 0..MaxTagLen} \cup {AppLog}

Names == {<<"a">>, <<"b">>}

-----------------------------------------------------------------------------
(* ast.Expression: the four node kinds *)

Restriction(operator, lhs, rhs) ==
    [kind |-> "Restriction", Operator |-> operator, LHS |-> lhs, RHS |-> rhs]

Negation(e) == [kind |-> "Negation", Expression |-> e]

Conjunction(es) == [kind |-> "Conjunction", children |-> es]

Disjunction(es) == [kind |-> "Disjunction", children |-> es]

Atoms == {Restriction("=", "severity", "ERROR"),
          Restriction("=~", "message", "fail")}

Exprs == Atoms
         \cup {Negation(a) : a \in Atoms}
         \cup {Conjunction(<<a, b>>) : a, b \in Atoms}
         \cup {Disjunction(<<a, b>>) : a, b \in Atoms}

Filter(e) == [expr |-> e]

Filters == {Filter(e) : e \in Exprs}

FilterLists == UNION {[1..n -> Filters] : n \in 0..MaxFilters}

FilterMaps == UNION {[S -> Filters] : S \in SUBSET Names}

-----------------------------------------------------------------------------
(* String helpers *)

RECURSIVE Concat(_)
Concat(ss) == IF ss = <<>> THEN <<>> ELSE Head(ss) \o Concat(Tail(ss))

Digits == <<"0", "1", "2", "3", "4", "5", "6", "7", "8", "9">>

RECURSIVE Itoa(_)
Itoa(i) == IF i < 10 THEN <<Digits[i + 1]>>
           ELSE Itoa(i \div 10) \o <<Digits[(i % 10) + 1]>>

\* strings.ReplaceAll(s, old, new) for a one-character old
ReplaceAll(s, old, new) == [i \in 1..Len(s) |-> IF s[i] = old THEN new ELSE s[i]]

RECURSIVE Join(_, _)
Join(ss, sep) == IF ss = <<>> THEN <<>>
                 ELSE IF Len(ss) = 1 THEN ss[1]
                 ELSE ss[1] \o <<sep>> \o Join(Tail(ss), sep)

Perms(S) == {p \in [1..Cardinality(S) -> S] : \A x \in S : \E i \in DOMAIN p : p[i] = x}

-----------------------------------------------------------------------------
(* fluentbit.Component and the expression compiler of package ast *)

Component(config) == [Kind |-> "FILTER", Config |-> config]

\* the stage a regular-expression restriction needs inside the envelope
matchStage(t, key, e) ==
    Component([Name |-> "modify", Match |-> t,
               Condition |-> <<"Key_value_matches ", e.LHS, " ", e.RHS>>,
               Set |-> key \o <<" 1">>])

RECURSIVE compile(_, _, _)
compile(e, t, prefix) ==
    CASE e.kind = "Restriction" ->
           IF e.Operator = "=~"
           THEN [stages |-> <<matchStage(t, prefix, e)>>,
                 expr |-> <<"(record[\"">> \o prefix \o <<"\"] ~= nil)">>]
           ELSE [stages |-> <<>>,
                 expr |-> <<"(record[\"", e.LHS, "\"] == \"", e.RHS, "\")">>]
      [] e.kind = "Negation" ->
           LET r == compile(e.Expression, t, prefix)
           IN [stages |-> r.stages, expr |-> <<"(not ">> \o r.expr \o <<")">>]
      [] OTHER ->
           LET rs == [i \in 1..Len(e.children) |->
                        compile(e.children[i], t, prefix \o <<"_">> \o Itoa(i - 1))]
               sep == IF e.kind = "Conjunction" THEN " and " ELSE " or "
           IN [stages |-> Concat([i \in 1..Len(rs) |-> rs[i].stages]),
               expr |-> <<"(">> \o Join([i \in 1..Len(rs) |-> rs[i].expr], sep) \o <<")">>]

\* ast.Expression.Components(tag, key)
Components(e, t, key) == compile(e, t, key).stages

\* ast.Expression.FluentConfig(tag, prefix)
FluentConfig(e, t, prefix) == compile(e, t, prefix)

-----------------------------------------------------------------------------
(* filter.go *)

innerFluentConfig(f, t, prefix) == FluentConfig(f.expr, t, prefix)

MatchesAny_Reversed(fs) ==
    Filter(Disjunction([i \in 1..Len(fs) |-> fs[Len(fs) + 1 - i].expr]))

MatchesAny(fs) == Filter(Disjunction([i \in 1..Len(fs) |-> fs[i].expr]))

nestStage(t) ==
    Component([Name |-> "nest", Match |-> t, Operation |-> "nest",
               Nest_under |-> "record", Wildcard |-> "*"])

liftStage(t) ==
    Component([Name |-> "nest", Match |-> t, Operation |-> "lift",
               Nested_under |-> "record"])

removeMatchKeys ==
    <<"\nfor k, v in pairs(record) do\n  if string.match(k, \"^__match_.+\") then\n    record[k] = nil\n  end\nend\n">>

AllFluentConfig_AlwaysEnvelope(t, fm, vs) ==
    LET r == [i \in 1..Len(vs) |->
                innerFluentConfig(fm[vs[i]], t, <<"__match_">> \o Itoa(i - 1))]
        c == Concat([i \in 1..Len(vs) |-> r[i].stages])
        locals == Concat([i \in 1..Len(vs) |->
                            <<"local ">> \o vs[i] \o <<" = ">> \o r[i].expr \o <<"\n">>])
    IN [c |-> <<nestStage(t)>> \o c \o <<liftStage(t)>>,
        lua |-> locals \o removeMatchKeys]

AllFluentConfig_NoCleanup(t, fm, vs) ==
    LET r == [i \in 1..Len(vs) |->
                innerFluentConfig(fm[vs[i]], t, <<"__match_">> \o Itoa(i - 1))]
        c == Concat([i \in 1..Len(vs) |-> r[i].stages])
        locals == Concat([i \in 1..Len(vs) |->
                            <<"local ">> \o vs[i] \o <<" = ">> \o r[i].expr \o <<"\n">>])
    IN IF Len(c) = 0
       THEN [c |-> <<>>, lua |-> locals]
       ELSE [c |-> <<nestStage(t)>> \o c \o <<liftStage(t)>>, lua |-> locals]

\* vs is the order in which `for k := range filters` delivered the keys
AllFluentConfig(t, fm, vs) ==
    LET r == [i \in 1..Len(vs) |->
                innerFluentConfig(fm[vs[i]], t, <<"__match_">> \o Itoa(i - 1))]
        c == Concat([i \in 1..Len(vs) |-> r[i].stages])
        locals == Concat([i \in 1..Len(vs) |->
                            <<"local ">> \o vs[i] \o <<" = ">> \o r[i].expr \o <<"\n">>])
    IN IF Len(c) = 0
       THEN [c |-> <<>>, lua |-> locals]
       ELSE [c |-> <<nestStage(t)>> \o c \o <<liftStage(t)>>,
             lua |-> locals \o removeMatchKeys]

innerComponentsMatch_NoReplace(t) == <<"__match_">> \o t

innerComponentsMatch(t) == <<"__match_">> \o ReplaceAll(t, ".", "_")

innerComponents(f, t) == Components(f.expr, t, innerComponentsMatch(t))

Parity_AlwaysRegex(excl) == "Regex"

Parity(excl) == IF excl THEN "Exclude" ELSE "Regex"

AllComponentsMatch_NoReplace(t) == <<"__match_">> \o t

AllComponentsMatch(t) == <<"__match_">> \o ReplaceAll(t, ".", "_")

grepStage(t, parity, match) ==
    Component([k \in {"Name", "Match", parity} |->
                 CASE k = "Name" -> "grep"
                   [] k = "Match" -> t
                   [] OTHER -> match \o <<" 1">>])

modifyStage(t, match) ==
    Component([Name |-> "modify", Match |-> t, Remove_wildcard |-> match])

AllComponents_NoLift(t, fs, excl) ==
    LET parity == Parity(excl)
        match == AllComponentsMatch(t)
    IN <<nestStage(t)>>
       \o Concat([i \in 1..Len(fs) |-> innerComponents(fs[i], t)])
       \o <<grepStage(t, parity, match), modifyStage(t, match)>>

AllComponents_GrepFirst(t, fs, excl) ==
    LET parity == Parity(excl)
        match == AllComponentsMatch(t)
    IN <<nestStage(t), grepStage(t, parity, match), modifyStage(t, match)>>
       \o Concat([i \in 1..Len(fs) |-> innerComponents(fs[i], t)])
       \o <<liftStage(t)>>

AllComponents(t, fs, excl) ==
    LET parity == Parity(excl)
        match == AllComponentsMatch(t)
    IN <<nestStage(t)>>
       \o Concat([i \in 1..Len(fs) |-> innerComponents(fs[i], t)])
       \o <<grepStage(t, parity, match), modifyStage(t, match), liftStage(t)>>

\* the arguments of the calls f.expr.Components(tag, match) made by one call
ComponentsCalls(t, fs) ==
    [i \in 1..Len(fs) |-> [expr |-> fs[i].expr, tag |-> t, key |-> innerComponentsMatch(t)]]

-----------------------------------------------------------------------------
(* State machine: one action per exported operation.  The functions are   *)
(* pure and share no state, so every call starts from the idle state.      *)

Init ==
    /\ op = "init"
    /\ tag = <<>>
    /\ filters = <<>>
    /\ isExclusionFilter = FALSE
    /\ named = <<>>
    /\ vars = <<>>
    /\ out = <<>>
    /\ lua = <<>>
    /\ exprCalls = <<>>
    /\ result = Filter(Disjunction(<<>>))
    /\ prevOut = <<>>
    /\ prevLua = <<>>

AllComponentsCall ==
    /\ op = "init"
    /\ \E t \in Tags, fs \in FilterLists, excl \in BOOLEAN :
        /\ op' = "AllComponents"
        /\ tag' = t
        /\ filters' = fs
        /\ isExclusionFilter' = excl
        /\ out' = AllComponents(t, fs, excl)
        /\ exprCalls' = ComponentsCalls(t, fs)
        /\ named' = <<>> /\ vars' = <<>> /\ lua' = <<>>
        /\ result' = Filter(Disjunction(<<>>))
        /\ prevOut' = <<>> /\ prevLua' = <<>>

ComponentsCall ==
    /\ op = "init"
    /\ \E t \in Tags, f \in Filters, excl \in BOOLEAN :
        /\ op' = "Components"
        /\ tag' = t
        /\ filters' = <<f>>
        /\ isExclusionFilter' = excl
        /\ out' = AllComponents(t, <<f>>, excl)
        /\ exprCalls' = ComponentsCalls(t, <<f>>)
        /\ named' = <<>> /\ vars' = <<>> /\ lua' = <<>>
        /\ result' = Filter(Disjunction(<<>>))
        /\ prevOut' = <<>> /\ prevLua' = <<>>

MatchesAnyCall ==
    /\ op = "init"
    /\ \E fs \in FilterLists :
        /\ op' = "MatchesAny"
        /\ filters' = fs
        /\ result' = MatchesAny(fs)
        /\ tag' = <<>> /\ isExclusionFilter' = FALSE
        /\ named' = <<>> /\ vars' = <<>> /\ out' = <<>> /\ lua' = <<>>
        /\ exprCalls' = <<>>
        /\ prevOut' = <<>> /\ prevLua' = <<>>

AllFluentConfigCall ==
    /\ op = "init"
    /\ \E t \in Tags, fm \in FilterMaps :
      \E vs \in Perms(DOMAIN fm) :
        /\ op' = "AllFluentConfig"
        /\ tag' = t
        /\ named' = fm
        /\ vars' = vs
        /\ out' = AllFluentConfig(t, fm, vs).c
        /\ lua' = AllFluentConfig(t, fm, vs).lua
        /\ filters' = <<>> /\ isExclusionFilter' = FALSE
        /\ exprCalls' = <<>>
        /\ result' = Filter(Disjunction(<<>>))
        /\ prevOut' = <<>> /\ prevLua' = <<>>

\* a second call with the same tag and the same map
AllFluentConfigAgain ==
    /\ op = "AllFluentConfig"
    /\ \E vs \in Perms(DOMAIN named) :
        /\ op' = "AllFluentConfigAgain"
        /\ vars' = vs
        /\ prevOut' = out
        /\ prevLua' = lua
        /\ out' = AllFluentConfig(tag, named, vs).c
        /\ lua' = AllFluentConfig(tag, named, vs).lua
        /\ UNCHANGED <<tag, named, filters, isExclusionFilter, exprCalls, result>>

Next ==
    \/ AllComponentsCall
    \/ ComponentsCall
    \/ MatchesAnyCall
    \/ AllFluentConfigCall
    \/ AllFluentConfigAgain

Spec == Init /\ [][Next]_allVars

-----------------------------------------------------------------------------
(* Properties *)

IsNest(c) ==
    /\ c.Config.Name = "nest"
    /\ "Operation" \in DOMAIN c.Config
    /\ c.Config.Operation = "nest"

IsLift(c) ==
    /\ c.Config.Name = "nest"
    /\ "Operation" \in DOMAIN c.Config
    /\ c.Config.Operation = "lift"

IsGrep(c) == c.Config.Name = "grep"

IsRemoval(c) == c.Config.Name = "modify" /\ "Remove_wildcard" \in DOMAIN c.Config

Count(s, P(_)) == Cardinality({i \in DOMAIN s : P(s[i])})

Range(s) == {s[i] : i \in DOMAIN s}

ComponentsOps == {"AllComponents", "Components"}

FluentConfigOps == {"AllFluentConfig", "AllFluentConfigAgain"}

AlphaNumeric == {"a", "p", "l", "o", "g", "7"}

\* the inner stage lists of the filters of the current call, concatenated
InnerOfFilters == Concat([i \in 1..Len(filters) |-> innerComponents(filters[i], tag)])

\* what the i-th enumerated filter of the current AllFluentConfig call compiles to
NamedResult(i) ==
    innerFluentConfig(named[vars[i]], tag, <<"__match_">> \o Itoa(i - 1))

NamedStages == Concat([i \in 1..Len(vars) |-> NamedResult(i).stages])

LocalLines ==
    Concat([i \in 1..Len(vars) |->
              <<"local ">> \o vars[i] \o <<" = ">> \o NamedResult(i).expr \o <<"\n">>])

\* C1: the list returned by AllComponents / Filter.Components is never
\* empty, starts with the nest stage and ends with the lift stage of the same
\* tag, and holds exactly one nest and exactly one lift stage.
C1_EnvelopePairing ==
    op \in ComponentsOps =>
        /\ Len(out) > 0
        /\ IsNest(out[1]) /\ out[1].Config.Match = tag
        /\ IsLift(out[Len(out)]) /\ out[Len(out)].Config.Match = tag
        /\ Count(out, IsNest) = 1
        /\ Count(out, IsLift) = 1

C1_Witness ==
    /\ op = "AllComponents"
    /\ Len(filters) = 2
    /\ isExclusionFilter
    /\ Len(out) > 4
    /\ IsLift(out[Len(out)])

\* C2: exactly one grep and one field-removal stage, the grep stage right
\* before the removal stage, both after all inner stages and before the lift
\* stage; the inner stages are the filters' inner stage lists concatenated in
\* the order of the filters.
C2_StageOrdering ==
    op \in ComponentsOps =>
        LET n == Len(out) IN
        /\ n = Len(InnerOfFilters) + 4
        /\ SubSeq(out, 2, n - 3) = InnerOfFilters
        /\ IsGrep(out[n - 2])
        /\ IsRemoval(out[n - 1])
        /\ IsLift(out[n])
        /\ Count(out, IsGrep) = 1
        /\ Count(out, IsRemoval) = 1

C2_Witness ==
    /\ op = "AllComponents"
    /\ Len(filters) = 2
    /\ innerComponents(filters[1], tag) # <<>>
    /\ innerComponents(filters[2], tag) # <<>>
    /\ innerComponents(filters[1], tag) # innerComponents(filters[2], tag)
    /\ IsGrep(out[Len(out) - 2])

\* C3: two calls of AllFluentConfig with the same tag and the same map return
\* the same stage list and the same script text.
C3_Determinism ==
    op = "AllFluentConfigAgain" => (out = prevOut /\ lua = prevLua)

\* C4: the match variable of the grep stage and of the field-removal stage is
\* `__match_` followed only by alphanumeric characters and underscores.
C4_Sanitised ==
    op \in ComponentsOps =>
        LET n == Len(out)
            removed == out[n - 1].Config.Remove_wildcard
            tested == out[n - 2].Config[Parity(isExclusionFilter)]
        IN /\ removed[1] = "__match_"
           /\ \A i \in 2..Len(removed) : removed[i] \in AlphaNumeric \cup {"_"}
           /\ tested = removed \o <<" 1">>

\* C5: the results for the two values of the exclusion flag have the same
\* length and differ only in the grep stage, which has the key Regex in
\* inclusion mode and Exclude in exclusion mode with the same value; a grep
\* stage has exactly one of the two keys.
C5_Duality ==
    op \in ComponentsOps =>
        LET other == AllComponents(tag, filters, ~isExclusionFilter)
            here == IF isExclusionFilter THEN "Exclude" ELSE "Regex"
            there == IF isExclusionFilter THEN "Regex" ELSE "Exclude"
            g == Len(out) - 2
        IN /\ Len(other) = Len(out)
           /\ \A i \in DOMAIN out : i # g => other[i] = out[i]
           /\ IsGrep(out[g]) /\ IsGrep(other[g])
           /\ other[g].Kind = out[g].Kind
           /\ DOMAIN out[g].Config = {"Name", "Match", here}
           /\ DOMAIN other[g].Config = {"Name", "Match", there}
           /\ other[g].Config.Match = out[g].Config.Match
           /\ other[g].Config[there] = out[g].Config[here]
           /\ out[g].Config[here] = out[g + 1].Config.Remove_wildcard \o <<" 1">>
           /\ \A i \in DOMAIN out : IsGrep(out[i]) =>
                ("Regex" \in DOMAIN out[i].Config) # ("Exclude" \in DOMAIN out[i].Config)

C5_Witness ==
    /\ op = "AllComponents"
    /\ isExclusionFilter
    /\ Len(filters) = 2
    /\ "Exclude" \in DOMAIN out[Len(out) - 2].Config
    /\ "Regex" \in DOMAIN AllComponents(tag, filters, FALSE)[Len(out) - 2].Config

\* C6: when every filter of the map compiles to zero inner stages,
\* AllFluentConfig returns no stages and a script that is just the
\* `local <name> = <expr>` lines, without the cleanup loop.
C6_EnvelopeSkipped ==
    (op \in FluentConfigOps /\ NamedStages = <<>>) =>
        /\ out = <<>>
        /\ lua = LocalLines
        /\ Count(lua, LAMBDA x : x = "local ") = Cardinality(DOMAIN named)
        /\ removeMatchKeys[1] \notin Range(lua)

C6_Witness ==
    /\ op = "AllFluentConfig"
    /\ DOMAIN named = Names
    /\ NamedStages = <<>>
    /\ out = <<>>
    /\ Len(lua) > 0

\* C7: when some filter of the map compiles to a non-empty inner stage list,
\* the result is one nest stage, all filters' inner stages, one lift stage
\* of the same tag, and the script is the `local` lines followed by the
\* cleanup loop over ^__match_.+ at its end.
C7_SharedEnvelope ==
    (op \in FluentConfigOps /\ NamedStages # <<>>) =>
        LET n == Len(out) IN
        /\ n = Len(NamedStages) + 2
        /\ IsNest(out[1]) /\ out[1].Config.Match = tag
        /\ IsLift(out[n]) /\ out[n].Config.Match = tag
        /\ SubSeq(out, 2, n - 1) = NamedStages
        /\ Count(out, IsNest) = 1
        /\ Count(out, IsLift) = 1
        /\ lua = LocalLines \o removeMatchKeys
        /\ Count(lua, LAMBDA x : x = "local ") = Cardinality(DOMAIN named)
        /\ lua[Len(lua)] = removeMatchKeys[1]

C7_Witness ==
    /\ op = "AllFluentConfig"
    /\ DOMAIN named = Names
    /\ \E i, j \in DOMAIN vars : NamedResult(i).stages = <<>> /\ NamedResult(j).stages # <<>>
    /\ Len(out) > 2
    /\ lua[Len(lua)] = removeMatchKeys[1]

OneFilterOnAppLog ==
    /\ op = "Components"
    /\ tag = AppLog
    /\ ~isExclusionFilter

AppLogShape ==
    /\ IsNest(out[1])
    /\ IsGrep(out[2])
    /\ DOMAIN out[2].Config = {"Name", "Match", "Regex"}
    /\ out[2].Config.Regex = <<"__match_", "a", "p", "p", "_", "l", "o", "g", " 1">>
    /\ IsRemoval(out[3])
    /\ IsLift(out[4])

\* C8 (as stated): one plain field comparison, which emits no inner stage,
\* on stream app.log in inclusion mode compiles to exactly 5 entries: nest,
\* grep with Regex referencing __match_app_log, field removal, lift.
C8_FiveEntries ==
    (OneFilterOnAppLog /\ filters[1].expr = Restriction("=", "severity", "ERROR")) =>
        (Len(out) = 5 /\ AppLogShape)

\* C8 (amended): one filter whose expression emits no inner stage, on stream
\* app.log in inclusion mode, compiles to exactly 4 entries: nest, grep with
\* Regex referencing __match_app_log, field removal, lift.
C8_FourEntries ==
    (OneFilterOnAppLog /\ innerComponents(filters[1], tag) = <<>>) =>
        (Len(out) = 4 /\ AppLogShape)

C8_Witness ==
    /\ OneFilterOnAppLog
    /\ filters[1].expr = Restriction("=", "severity", "ERROR")
    /\ innerComponents(filters[1], tag) = <<>>
    /\ Len(out) = 4

\* C9: MatchesAny returns a Filter whose root is a Disjunction with one child
\* per input filter, the i-th child being the i-th filter's expression.
C9_MatchesAny ==
    op = "MatchesAny" =>
        /\ result.expr.kind = "Disjunction"
        /\ Len(result.expr.children) = Len(filters)
        /\ \A i \in 1..Len(filters) : result.expr.children[i] = filters[i].expr
        /\ filters \in FilterLists

C9_Witness ==
    /\ op = "MatchesAny"
    /\ Len(filters) = 2
    /\ filters[1] # filters[2]
    /\ Len(result.expr.children) = 2

\* C10: the match variable handed to every filter's inner compilation is the
\* one the grep stage tests and the removal stage deletes.
C10_MatchAgreement ==
    op \in ComponentsOps =>
        LET n == Len(out) IN
        /\ Len(exprCalls) = Len(filters)
        /\ \A i \in DOMAIN exprCalls :
             /\ exprCalls[i].expr = filters[i].expr
             /\ exprCalls[i].tag = tag
             /\ exprCalls[i].key = out[n - 1].Config.Remove_wildcard
             /\ exprCalls[i].key \o <<" 1">> = out[n - 2].Config[Parity(isExclusionFilter)]

C10_Witness ==
    /\ op = "AllComponents"
    /\ Len(filters) = 2
    /\ "." \in Range(tag)
    /\ Len(exprCalls) = 2
    /\ exprCalls[1].key = out[Len(out) - 1].Config.Remove_wildcard

====
